---- MODULE Spec2Model ----
(***************************************************************************)
(* Patient / appointment scheduling API (Django + REST framework).         *)
(*                                                                         *)
(* The model covers the two record stores (Patient, Appointment), the      *)
(* clock read by timezone.now(), the request being served, the response    *)
(* to the last request, and the handlers of the API: the ModelViewSet      *)
(* operations of both view sets and the three status actions check_in,     *)
(* complete and cancel.  A request is received in one step and handled,    *)
(* whole, in the next.                                                     *)
(*                                                                         *)
(* A date-time is a natural number of clock slots; SlotsPerDay slots make  *)
(* one calendar date, so .date() is integer division.  A patient_id is a   *)
(* sequence of characters.                                                 *)
(*                                                                         *)
(* Two computations that touch no store have a specification of their own: *)
(* Patient.age over calendar dates (SpecAge) and the appointment dates of  *)
(* the sample-data generator, in minutes (SpecGenerator).                  *)
(***************************************************************************)
EXTENDS Integers, Sequences, FiniteSets, TLC

VARIABLES
    patients,           \* Patient table: pk -> [patient_id]
    appointments,       \* Appointment table: pk -> [patient, appointment_date, status]
    nextPatientPk,      \* AutoField sequence of Patient
    nextAppointmentPk,  \* AutoField sequence of Appointment
    now,                \* the clock, timezone.now()
    request,            \* the request being served, NoRequest between requests
    response,           \* [op, kind, errors] answered to the last request
    requests,           \* number of requests received so far
    workers,            \* the create requests in flight (concurrent specification)
    age_of,             \* one evaluation of Patient.age: [date_of_birth, today, age, computed]
    sample              \* one appointment of the sample-data generator:
                        \* [ran_at, appointment_date, status, made]

vars == <<patients, appointments, nextPatientPk, nextAppointmentPk, now,
          request, response, requests, workers, age_of, sample>>

----------------------------------------------------------------------------
(* Bounds of the model *)

MaxRequests == 3        \* requests received in one behaviour
MaxTime == 2            \* date-times are 0..MaxTime
MaxNow == 1             \* the clock runs over 0..MaxNow
SlotsPerDay == 2        \* clock slots per calendar date

Times == 0..MaxTime

Workers == {"w1", "w2"} \* server threads of the concurrent specification

None == 0               \* self.pk of an instance that is not saved yet

PT1 == <<"P", "T", "1">>
PT2 == <<"P", "T", "2">>
XX1 == <<"X", "1">>
PatientIdInputs == {PT1, PT2, XX1}

----------------------------------------------------------------------------
(* Appointment model: models.py *)

STATUS_CHOICES ==
    {"SCHEDULED", "CONFIRMED", "CHECKED_IN", "IN_PROGRESS", "COMPLETED",
     "NO_SHOW", "CANCELLED"}

DefaultStatus_Confirmed == "CONFIRMED"
DefaultStatus == "SCHEDULED"

\* status__in of the double-booking queries
ActiveStatuses_NoCheckedIn == {"SCHEDULED", "CONFIRMED"}
ActiveStatuses == {"SCHEDULED", "CONFIRMED", "CHECKED_IN"}

\* datetime.date() and the __date lookup: the calendar date of a date-time
Date_Identity(t) == t
Date(t) == t \div SlotsPerDay

\* Appointment.clean, first check: appointment_date < timezone.now()
InPast(t, clock) == t < clock

\* Appointment.clean, the queryset `overlapping`: the pks of the rows of
\* table appts that filter(...).exclude(pk=pk) selects for record rec
Overlapping(appts, rec, pk) ==
    {k \in DOMAIN appts :
        /\ appts[k].patient = rec.patient
        /\ Date(appts[k].appointment_date) = Date(rec.appointment_date)
        /\ appts[k].status \in ActiveStatuses} \ {pk}

\* Appointment.clean as run by full_clean() in save(): the message of the
\* django.core.exceptions.ValidationError it raises, none when it passes
CleanErrors(appts, rec, pk, clock) ==
    IF InPast(rec.appointment_date, clock)
    THEN {"Cannot schedule appointments in the past"}
    ELSE IF Overlapping(appts, rec, pk) # {}
    THEN {"already has an appointment on this date"}
    ELSE {}

\* Appointment.save: full_clean() and then the INSERT or UPDATE of the row.
\* The table after saving rec under pk (pk = None: a new row, under newPk).
Saved_Delete(appts, rec, pk, newPk) ==
    IF pk = None
    THEN [k \in DOMAIN appts \cup {newPk} |->
            IF k = newPk THEN rec ELSE appts[k]]
    ELSE [k \in DOMAIN appts \ {pk} |-> appts[k]]
Saved(appts, rec, pk, newPk) ==
    IF pk = None
    THEN [k \in DOMAIN appts \cup {newPk} |->
            IF k = newPk THEN rec ELSE appts[k]]
    ELSE [appts EXCEPT ![pk] = rec]

----------------------------------------------------------------------------
(* Serializers: serializers.py *)

\* PatientSerializer.validate_patient_id: value.startswith('PT')
StartsWithPT(value) ==
    /\ Len(value) >= 2
    /\ value[1] = "P"
    /\ value[2] = "T"

\* Patient.objects.get(patient_id=value): the matching pks (none: DoesNotExist)
PatientLookup(pats, value) == {k \in DOMAIN pats : pats[k].patient_id = value}

PatientOf(pats, value) == CHOOSE k \in PatientLookup(pats, value) : TRUE

\* AppointmentSerializer.validate_patient_id: TRUE when the value is accepted
ValidatePatientId(pats, value) == PatientLookup(pats, value) # {}

\* AppointmentSerializer.validate_appointment_date: TRUE when accepted
ValidateAppointmentDate_AcceptAll(value, clock) == TRUE
ValidateAppointmentDate(value, clock) == ~(value < clock)

\* The request bodies (a dict in the code): `has` holds the names of the
\* fields the request carries; a field it does not carry has a fixed value
\* that is never read.
Has(data, field) == field \in data.has

AppointmentFields == {"patient_id", "appointment_date", "status"}

AppointmentData ==
    {d \in [has : SUBSET AppointmentFields, patient_id : {PT1, PT2},
            appointment_date : Times, status : STATUS_CHOICES] :
        /\ ~Has(d, "patient_id") => d.patient_id = PT1
        /\ ~Has(d, "appointment_date") => d.appointment_date = 0
        /\ ~Has(d, "status") => d.status = "SCHEDULED"}

NoBody == [has |-> {}, patient_id |-> PT1, appointment_date |-> 0,
           status |-> "SCHEDULED"]

\* The bodies that carry both required fields, and one body for each way of
\* leaving a required field out (such a body is refused whatever it carries)
HasRequired(d) == Has(d, "patient_id") /\ Has(d, "appointment_date")

FullBodies ==
    {d \in AppointmentData :
        HasRequired(d) \/ (d.appointment_date = 0 /\ d.patient_id = PT1
                           /\ ~Has(d, "status"))}

\* The bodies of a PATCH: one field, or none.  A PATCH that carries several
\* fields is validated and applied field by field, as the PUT that carries
\* them is.
PartialBodies == {d \in AppointmentData : Cardinality(d.has) <= 1}

\* Field validation of AppointmentSerializer (to_internal_value): the errors
\* it collects.  patient_id and appointment_date are required unless the
\* update is partial; status has a default and is not required.
FieldErrors(pats, data, partial, clock) ==
    {e \in {"patient_id: This field is required",
            "appointment_date: This field is required",
            "patient_id: does not exist",
            "appointment_date: Cannot schedule appointments in the past"} :
        \/ /\ e = "patient_id: This field is required"
           /\ ~partial /\ ~Has(data, "patient_id")
        \/ /\ e = "appointment_date: This field is required"
           /\ ~partial /\ ~Has(data, "appointment_date")
        \/ /\ e = "patient_id: does not exist"
           /\ Has(data, "patient_id")
           /\ ~ValidatePatientId(pats, data.patient_id)
        \/ /\ e = "appointment_date: Cannot schedule appointments in the past"
           /\ Has(data, "appointment_date")
           /\ ~ValidateAppointmentDate(data.appointment_date, clock)}

\* AppointmentSerializer.validate, the queryset `existing` for the data of a
\* request on instance pk (None on create)
Existing(appts, pats, data, pk) ==
    {k \in DOMAIN appts :
        /\ appts[k].patient = PatientOf(pats, data.patient_id)
        /\ Date(appts[k].appointment_date) = Date(data.appointment_date)
        /\ appts[k].status \in ActiveStatuses} \ {pk}

\* AppointmentSerializer.validate: the error it raises, none when it passes
ValidateErrors(appts, pats, data, pk) ==
    IF /\ Has(data, "patient_id")
       /\ Has(data, "appointment_date")
       /\ Existing(appts, pats, data, pk) # {}
    THEN {"already has an appointment on"}
    ELSE {}

\* AppointmentSerializer.create: the record handed to Appointment.objects.create
Created(pats, data) ==
    [patient |-> PatientOf(pats, data.patient_id),
     appointment_date |-> data.appointment_date,
     status |-> IF Has(data, "status") THEN data.status ELSE DefaultStatus]

\* AppointmentSerializer.update: the instance after the setattr of every
\* validated field, before save()
Updated(pats, instance, data) ==
    [patient |-> IF Has(data, "patient_id")
                 THEN PatientOf(pats, data.patient_id) ELSE instance.patient,
     appointment_date |-> IF Has(data, "appointment_date")
                          THEN data.appointment_date
                          ELSE instance.appointment_date,
     status |-> IF Has(data, "status") THEN data.status ELSE instance.status]

\* The patient request bodies
PatientData ==
    {[has |-> {"patient_id"}, patient_id |-> p] : p \in PatientIdInputs}
        \cup {[has |-> {}, patient_id |-> XX1]}

\* Field validation of PatientSerializer: validate_patient_id and the
\* UniqueValidator that unique=True puts on patient_id (it excludes the
\* instance being updated)
PatientFieldErrors_NoUnique(pats, data, pk, partial) ==
    {e \in {"patient_id: This field is required",
            "patient_id: must start with PT"} :
        \/ /\ e = "patient_id: This field is required"
           /\ ~partial /\ ~Has(data, "patient_id")
        \/ /\ e = "patient_id: must start with PT"
           /\ Has(data, "patient_id") /\ ~StartsWithPT(data.patient_id)}
PatientFieldErrors(pats, data, pk, partial) ==
    {e \in {"patient_id: This field is required",
            "patient_id: must start with PT",
            "patient_id: already exists"} :
        \/ /\ e = "patient_id: This field is required"
           /\ ~partial /\ ~Has(data, "patient_id")
        \/ /\ e = "patient_id: must start with PT"
           /\ Has(data, "patient_id") /\ ~StartsWithPT(data.patient_id)
        \/ /\ e = "patient_id: already exists"
           /\ Has(data, "patient_id")
           /\ PatientLookup(pats, data.patient_id) \ {pk} # {}}

----------------------------------------------------------------------------
(* Views: views.py *)

NoRequest == [op |-> "none", pk |-> None, data |-> NoBody]

\* The answer to a request.  kind is "OK", "NotFound" (404 of get_object),
\* "ValidationError" (400, field validation of the serializer),
\* "ConflictError" (400, raised by the serializer's validate),
\* "TransitionError" (400 of a status action) or "Unhandled" (the django
\* ValidationError that save() raises and nothing catches: a 500).
Answer(op, kind, errors) == [op |-> op, kind |-> kind, errors |-> errors]

\* No answer yet
NoResponse == Answer("none", "none", {})

\* check_in: appointment.status != 'CONFIRMED' is refused
CanCheckIn_Always(status) == TRUE
CanCheckIn(status) == status = "CONFIRMED"

\* complete: appointment.status not in ['CHECKED_IN', 'IN_PROGRESS'] is refused
CanComplete(status) == status \in {"CHECKED_IN", "IN_PROGRESS"}

\* cancel: appointment.status == 'COMPLETED' is refused
CanCancel_Always(status) == TRUE
CanCancel(status) == status # "COMPLETED"

\* The handler of request.op runs and answers
Handling(op) ==
    /\ request.op = op
    /\ request' = NoRequest
    /\ UNCHANGED <<now, requests, workers, age_of, sample>>

\* POST /api/patients/
PatientCreate ==
    /\ Handling("patient_create")
    /\ UNCHANGED <<appointments, nextAppointmentPk>>
    /\ LET errors == PatientFieldErrors(patients, request.data, None, FALSE) IN
       IF errors # {}
       THEN /\ response' = Answer(request.op, "ValidationError", errors)
            /\ UNCHANGED <<patients, nextPatientPk>>
       ELSE /\ patients' =
                [k \in DOMAIN patients \cup {nextPatientPk} |->
                    IF k = nextPatientPk
                    THEN [patient_id |-> request.data.patient_id]
                    ELSE patients[k]]
            /\ nextPatientPk' = nextPatientPk + 1
            /\ response' = Answer(request.op, "OK", {})

\* PUT ("patient_update") and PATCH ("patient_partial_update")
\* /api/patients/{pk}/
PatientUpdate ==
    /\ \/ Handling("patient_update")
       \/ Handling("patient_partial_update")
    /\ UNCHANGED <<appointments, nextPatientPk, nextAppointmentPk>>
    /\ LET errors == PatientFieldErrors(patients, request.data, request.pk,
                                        request.op = "patient_partial_update")
       IN
       IF request.pk \notin DOMAIN patients
       THEN /\ response' = Answer(request.op, "NotFound", {"Not found"})
            /\ UNCHANGED patients
       ELSE IF errors # {}
       THEN /\ response' = Answer(request.op, "ValidationError", errors)
            /\ UNCHANGED patients
       ELSE /\ patients' =
                IF Has(request.data, "patient_id")
                THEN [patients EXCEPT
                        ![request.pk].patient_id = request.data.patient_id]
                ELSE patients
            /\ response' = Answer(request.op, "OK", {})

\* DELETE /api/patients/{pk}/ : on_delete=CASCADE removes the appointments
\* of the patient
PatientDestroy_NoCascade ==
    /\ Handling("patient_destroy")
    /\ UNCHANGED <<nextPatientPk, nextAppointmentPk, appointments>>
    /\ IF request.pk \notin DOMAIN patients
       THEN /\ response' = Answer(request.op, "NotFound", {"Not found"})
            /\ UNCHANGED patients
       ELSE /\ patients' =
                [k \in DOMAIN patients \ {request.pk} |-> patients[k]]
            /\ response' = Answer(request.op, "OK", {})
PatientDestroy ==
    /\ Handling("patient_destroy")
    /\ UNCHANGED <<nextPatientPk, nextAppointmentPk>>
    /\ IF request.pk \notin DOMAIN patients
       THEN /\ response' = Answer(request.op, "NotFound", {"Not found"})
            /\ UNCHANGED <<patients, appointments>>
       ELSE /\ patients' =
                [k \in DOMAIN patients \ {request.pk} |-> patients[k]]
            /\ appointments' =
                [k \in {a \in DOMAIN appointments :
                            appointments[a].patient # request.pk}
                    |-> appointments[k]]
            /\ response' = Answer(request.op, "OK", {})

\* POST /api/appointments/
AppointmentCreate ==
    /\ Handling("create")
    /\ UNCHANGED <<patients, nextPatientPk>>
    /\ LET data == request.data
           errors == FieldErrors(patients, data, FALSE, now)
       IN
       IF errors # {}
       THEN /\ response' = Answer(request.op, "ValidationError", errors)
            /\ UNCHANGED <<appointments, nextAppointmentPk>>
       ELSE IF ValidateErrors(appointments, patients, data, None) # {}
       THEN /\ response' = Answer(request.op, "ConflictError",
                                  ValidateErrors(appointments, patients, data, None))
            /\ UNCHANGED <<appointments, nextAppointmentPk>>
       ELSE IF CleanErrors(appointments, Created(patients, data), None, now) # {}
       THEN /\ response' =
                Answer(request.op, "Unhandled",
                       CleanErrors(appointments, Created(patients, data), None, now))
            /\ UNCHANGED <<appointments, nextAppointmentPk>>
       ELSE /\ appointments' = Saved(appointments, Created(patients, data),
                                     None, nextAppointmentPk)
            /\ nextAppointmentPk' = nextAppointmentPk + 1
            /\ response' = Answer(request.op, "OK", {})

\* PUT ("update") and PATCH ("partial_update") /api/appointments/{pk}/
AppointmentUpdate ==
    /\ \/ Handling("update")
       \/ Handling("partial_update")
    /\ UNCHANGED <<patients, nextPatientPk, nextAppointmentPk>>
    /\ LET pk == request.pk
           data == request.data
           errors == FieldErrors(patients, data, request.op = "partial_update", now)
       IN
       IF pk \notin DOMAIN appointments
       THEN /\ response' = Answer(request.op, "NotFound", {"Not found"})
            /\ UNCHANGED appointments
       ELSE IF errors # {}
       THEN /\ response' = Answer(request.op, "ValidationError", errors)
            /\ UNCHANGED appointments
       ELSE IF ValidateErrors(appointments, patients, data, pk) # {}
       THEN /\ response' = Answer(request.op, "ConflictError",
                                  ValidateErrors(appointments, patients, data, pk))
            /\ UNCHANGED appointments
       ELSE IF CleanErrors(appointments,
                           Updated(patients, appointments[pk], data), pk, now) # {}
       THEN /\ response' =
                Answer(request.op, "Unhandled",
                       CleanErrors(appointments,
                                   Updated(patients, appointments[pk], data),
                                   pk, now))
            /\ UNCHANGED appointments
       ELSE /\ appointments' =
                Saved(appointments, Updated(patients, appointments[pk], data),
                      pk, pk)
            /\ response' = Answer(request.op, "OK", {})

\* DELETE /api/appointments/{pk}/
AppointmentDestroy ==
    /\ Handling("destroy")
    /\ UNCHANGED <<patients, nextPatientPk, nextAppointmentPk>>
    /\ IF request.pk \notin DOMAIN appointments
       THEN /\ response' = Answer(request.op, "NotFound", {"Not found"})
            /\ UNCHANGED appointments
       ELSE /\ appointments' =
                [k \in DOMAIN appointments \ {request.pk} |-> appointments[k]]
            /\ response' = Answer(request.op, "OK", {})

StatusOf(pk) == IF pk \in DOMAIN appointments THEN appointments[pk].status
                ELSE "none"

\* The three status actions share their shape: get_object, the status
\* guard, the assignment of the new status, save()
StatusAction(op, allowed, refusal, newStatus) ==
    /\ Handling(op)
    /\ UNCHANGED <<patients, nextPatientPk, nextAppointmentPk>>
    /\ LET pk == request.pk IN
       IF pk \notin DOMAIN appointments
       THEN /\ response' = Answer(op, "NotFound", {"Not found"})
            /\ UNCHANGED appointments
       ELSE IF ~allowed
       THEN /\ response' = Answer(op, "TransitionError", {refusal})
            /\ UNCHANGED appointments
       ELSE IF CleanErrors(appointments,
                           [appointments[pk] EXCEPT !.status = newStatus],
                           pk, now) # {}
       THEN /\ response' =
                Answer(op, "Unhandled",
                       CleanErrors(appointments,
                                   [appointments[pk] EXCEPT !.status = newStatus],
                                   pk, now))
            /\ UNCHANGED appointments
       ELSE /\ appointments' =
                Saved(appointments,
                      [appointments[pk] EXCEPT !.status = newStatus], pk, pk)
            /\ response' = Answer(op, "OK", {})

\* POST /api/appointments/{pk}/check_in/
check_in ==
    StatusAction("check_in", CanCheckIn(StatusOf(request.pk)),
                 "Can only check in confirmed appointments", "CHECKED_IN")

\* POST /api/appointments/{pk}/complete/
complete ==
    StatusAction("complete", CanComplete(StatusOf(request.pk)),
                 "Can only complete checked-in or in-progress appointments",
                 "COMPLETED")

\* POST /api/appointments/{pk}/cancel/
cancel ==
    StatusAction("cancel", CanCancel(StatusOf(request.pk)),
                 "Cannot cancel completed appointments", "CANCELLED")

----------------------------------------------------------------------------
(* The callers and the clock *)

\* The requests that can be sent: every endpoint, over its bodies and over
\* the pks of the rows ever inserted and of the next, never inserted, row
PatientRequests ==
    {[op |-> "patient_create", pk |-> None, data |-> d] : d \in PatientData}
    \cup {[op |-> o, pk |-> k, data |-> d] :
            o \in {"patient_update", "patient_partial_update"},
            k \in 1..nextPatientPk, d \in PatientData}
    \cup {[op |-> "patient_destroy", pk |-> k, data |-> NoBody] :
            k \in 1..nextPatientPk}

AppointmentRequests ==
    {[op |-> "create", pk |-> None, data |-> d] : d \in FullBodies}
    \cup {[op |-> "update", pk |-> k, data |-> d] :
            k \in DOMAIN appointments, d \in FullBodies}
    \cup {[op |-> "partial_update", pk |-> k, data |-> d] :
            k \in DOMAIN appointments, d \in PartialBodies}
    \cup {[op |-> o, pk |-> k, data |-> NoBody] :
            o \in {"update", "partial_update"},
            k \in 1..nextAppointmentPk \ DOMAIN appointments}
    \cup {[op |-> o, pk |-> k, data |-> NoBody] :
            o \in {"destroy", "check_in", "complete", "cancel"},
            k \in 1..nextAppointmentPk}

\* A request arrives while none is being served
Receive ==
    /\ request = NoRequest
    /\ requests < MaxRequests
    /\ \E r \in PatientRequests \cup AppointmentRequests : request' = r
    /\ response' = NoResponse
    /\ requests' = requests + 1
    /\ UNCHANGED <<patients, appointments, nextPatientPk, nextAppointmentPk,
                   now, workers, age_of, sample>>

\* The clock advances, between requests: a handler reads it when it runs
Tick ==
    /\ request = NoRequest
    /\ now < MaxNow
    /\ now' = now + 1
    /\ UNCHANGED <<patients, appointments, nextPatientPk, nextAppointmentPk,
                   request, response, requests, workers, age_of, sample>>

----------------------------------------------------------------------------
(* A create request served by a thread of its own.  Nothing in the view,   *)
(* the serializer or the model opens a transaction or takes a lock, so the *)
(* queries of the two checks and the INSERT are separate steps.            *)

\* serializer.is_valid(): the field validation and validate()
WorkerValidate(w, data) ==
    /\ workers[w].pc = "idle"
    /\ requests < MaxRequests
    /\ requests' = requests + 1
    /\ UNCHANGED <<patients, appointments, nextPatientPk, nextAppointmentPk,
                   now, request, age_of, sample>>
    /\ IF FieldErrors(patients, data, FALSE, now) # {}
       THEN /\ response' = Answer("create", "ValidationError",
                                  FieldErrors(patients, data, FALSE, now))
            /\ UNCHANGED workers
       ELSE IF ValidateErrors(appointments, patients, data, None) # {}
       THEN /\ response' = Answer("create", "ConflictError",
                                  ValidateErrors(appointments, patients, data, None))
            /\ UNCHANGED workers
       ELSE /\ workers' = [workers EXCEPT ![w].pc = "validated", ![w].data = data]
            /\ UNCHANGED response

\* serializer.save() -> create() -> Appointment.save(): full_clean()
WorkerClean(w) ==
    /\ workers[w].pc = "validated"
    /\ UNCHANGED <<patients, appointments, nextPatientPk, nextAppointmentPk,
                   now, request, requests, age_of, sample>>
    /\ LET errors == CleanErrors(appointments,
                                 Created(patients, workers[w].data), None, now)
       IN
       IF errors # {}
       THEN /\ response' = Answer("create", "Unhandled", errors)
            /\ workers' = [workers EXCEPT ![w].pc = "idle"]
       ELSE /\ workers' = [workers EXCEPT ![w].pc = "cleaned"]
            /\ UNCHANGED response

\* Appointment.save(): super().save(), the INSERT
WorkerInsert(w) ==
    /\ workers[w].pc = "cleaned"
    /\ UNCHANGED <<patients, nextPatientPk, now, request, requests, age_of,
                   sample>>
    /\ appointments' = Saved(appointments, Created(patients, workers[w].data),
                             None, nextAppointmentPk)
    /\ nextAppointmentPk' = nextAppointmentPk + 1
    /\ workers' = [workers EXCEPT ![w].pc = "done", ![w].pk = nextAppointmentPk]
    /\ response' = Answer("create", "OK", {})

----------------------------------------------------------------------------
(* Patient.age: models.py *)

\* A calendar date is [year, month, day]
IsLeap(year) == year % 4 = 0 /\ (year % 100 # 0 \/ year % 400 = 0)

DaysInMonth(year, month) ==
    IF month = 2 THEN (IF IsLeap(year) THEN 29 ELSE 28)
    ELSE IF month \in {4, 6, 9, 11} THEN 30 ELSE 31

\* The dates the model draws from: every month of the years of two
\* generations, on the days around the middle and the end of the month
YearsBack == 1          \* years before 2000 and before 2024

AgeYears == ((2000 - YearsBack)..2000) \cup ((2024 - YearsBack)..2024)

AgeDays == {1, 14, 15, 16, 28, 29}

Dates ==
    {d \in [year : AgeYears, month : 1..12, day : AgeDays] :
        d.day <= DaysInMonth(d.year, d.month)}

\* Python's comparison of (month, day) tuples
TupleLess_OrEqual(a, b) == a[1] < b[1] \/ (a[1] = b[1] /\ a[2] <= b[2])
TupleLess(a, b) == a[1] < b[1] \/ (a[1] = b[1] /\ a[2] < b[2])

\* The property age: a bool subtracted from the difference of the years
Age(date_of_birth, today) ==
    today.year - date_of_birth.year
        - (IF TupleLess(<<today.month, today.day>>,
                        <<date_of_birth.month, date_of_birth.day>>)
           THEN 1 ELSE 0)

NoAge == [date_of_birth |-> [year |-> 2000, month |-> 1, day |-> 1],
          today |-> [year |-> 2000, month |-> 1, day |-> 1],
          age |-> 0, computed |-> FALSE]

\* patient.age is read
ComputeAge ==
    /\ ~age_of.computed
    /\ age_of' = [age_of EXCEPT !.age = Age(age_of.date_of_birth, age_of.today),
                                !.computed = TRUE]
    /\ UNCHANGED <<patients, appointments, nextPatientPk, nextAppointmentPk,
                   now, request, response, requests, workers, sample>>

----------------------------------------------------------------------------
(* Sample-data generator: management/commands/generate_sample_data.py *)

\* A date-time is a number of minutes; timedelta(days=n)
Days(n) == n * 24 * 60

StartDaysAgo == 30      \* start_date = timezone.now() - timedelta(days=30)
EndDaysAhead == 60      \* end_date = timezone.now() + timedelta(days=60)
MaxDaysOffset == 90     \* random.randint(0, 90)
OffsetShift == 30       \* ... - 30
FirstHour == 7          \* random.randint(7, 18)
LastHour == 18
Minutes == {0, 15, 30, 45}

\* datetime.replace(hour=, minute=, second=0, microsecond=0)
Replace(t, hour, minute) == (t \div Days(1)) * Days(1) + hour * 60 + minute

\* The appointment_date of one iteration of the loop
GeneratedDate(ran_at, offset, hour, minute) ==
    Replace((ran_at - Days(StartDaysAgo)) + Days(offset - OffsetShift),
            hour, minute)

\* The keys of status_weights
GeneratedStatuses(appointment_date, ran_at) ==
    IF appointment_date < ran_at
    THEN {"COMPLETED", "NO_SHOW", "CANCELLED"}
    ELSE {"SCHEDULED", "CONFIRMED", "CANCELLED"}

\* The times the generator is run at: the first, a middle and the last
\* minute of each of the days from day 100 on
MaxRunDays == 2

RunTimes ==
    {Days(100 + d) + m : d \in 0..(MaxRunDays - 1), m \in {0, 7 * 60 + 30, Days(1) - 1}}

NoSample == [ran_at |-> 0, appointment_date |-> 0, status |-> "none",
             made |-> FALSE]

\* One iteration of the loop that builds the appointments
Generate ==
    /\ ~sample.made
    /\ \E offset \in 0..MaxDaysOffset, hour \in FirstHour..LastHour,
          minute \in Minutes :
        \E status \in GeneratedStatuses(
                        GeneratedDate(sample.ran_at, offset, hour, minute),
                        sample.ran_at) :
            sample' = [sample EXCEPT
                        !.appointment_date =
                            GeneratedDate(sample.ran_at, offset, hour, minute),
                        !.status = status,
                        !.made = TRUE]
    /\ UNCHANGED <<patients, appointments, nextPatientPk, nextAppointmentPk,
                   now, request, response, requests, workers, age_of>>

----------------------------------------------------------------------------
(* Requests served one at a time *)

Init ==
    /\ patients = <<>>
    /\ appointments = <<>>
    /\ nextPatientPk = 1
    /\ nextAppointmentPk = 1
    /\ now = 0
    /\ request = NoRequest
    /\ response = NoResponse
    /\ requests = 0
    /\ workers = [w \in Workers |->
                    [pc |-> "idle", data |-> NoBody, pk |-> None]]
    /\ age_of = NoAge
    /\ sample = NoSample

Next ==
    \/ Receive
    \/ PatientCreate
    \/ PatientUpdate
    \/ PatientDestroy
    \/ AppointmentCreate
    \/ AppointmentUpdate
    \/ AppointmentDestroy
    \/ check_in
    \/ complete
    \/ cancel
    \/ Tick

Spec == Init /\ [][Next]_vars

----------------------------------------------------------------------------
(* Create requests served concurrently *)

\* A patient is registered
ReceivePatientCreate ==
    /\ request = NoRequest
    /\ requests < MaxRequests
    /\ \E d \in PatientData :
          request' = [op |-> "patient_create", pk |-> None, data |-> d]
    /\ response' = NoResponse
    /\ requests' = requests + 1
    /\ UNCHANGED <<patients, appointments, nextPatientPk, nextAppointmentPk,
                   now, workers, age_of, sample>>

NextConcurrent ==
    \/ ReceivePatientCreate
    \/ PatientCreate
    \/ \E w \in Workers, data \in FullBodies : WorkerValidate(w, data)
    \/ \E w \in Workers : WorkerClean(w)
    \/ \E w \in Workers : WorkerInsert(w)
    \/ Tick

SpecConcurrent == Init /\ [][NextConcurrent]_vars

----------------------------------------------------------------------------
(* Patient.age over the dates of birth and the current dates not before    *)
(* them; the sample-data generator over its run times                      *)

NotBefore(d, e) ==
    \/ d.year < e.year
    \/ d.year = e.year /\ ~TupleLess(<<e.month, e.day>>, <<d.month, d.day>>)

EmptyApi ==
    /\ patients = <<>>
    /\ appointments = <<>>
    /\ nextPatientPk = 1
    /\ nextAppointmentPk = 1
    /\ now = 0
    /\ request = NoRequest
    /\ response = NoResponse
    /\ requests = 0
    /\ workers = [w \in Workers |->
                    [pc |-> "idle", data |-> NoBody, pk |-> None]]

InitAge ==
    /\ EmptyApi
    /\ sample = NoSample
    /\ \E b \in Dates, t \in Dates :
        /\ NotBefore(b, t)
        /\ age_of = [date_of_birth |-> b, today |-> t, age |-> 0,
                     computed |-> FALSE]

NextAge == ComputeAge

SpecAge == InitAge /\ [][NextAge]_vars

InitGenerator ==
    /\ EmptyApi
    /\ age_of = NoAge
    /\ \E t \in RunTimes :
        sample = [ran_at |-> t, appointment_date |-> 0, status |-> "none",
                  made |-> FALSE]

NextGenerator == Generate

SpecGenerator == InitGenerator /\ [][NextGenerator]_vars

----------------------------------------------------------------------------
(* Properties *)

Rows == DOMAIN appointments

\* The rows present before and after a step
Kept == DOMAIN appointments \cap DOMAIN appointments'

SameDay(t, u) == t \div SlotsPerDay = u \div SlotsPerDay

IsActive(status) == status \in {"SCHEDULED", "CONFIRMED", "CHECKED_IN"}

\* Two distinct rows of one patient, on one calendar date, both active
DoubleBooked(a, b) ==
    /\ a # b
    /\ appointments[a].patient = appointments[b].patient
    /\ SameDay(appointments[a].appointment_date, appointments[b].appointment_date)
    /\ IsActive(appointments[a].status)
    /\ IsActive(appointments[b].status)

StoreUnchanged ==
    UNCHANGED <<patients, appointments, nextPatientPk, nextAppointmentPk>>

\* The step is the handling of a request of one of the operations ops (the
\* handler of request.op is the only action enabled while a request is
\* being served)
Handles(ops) == request.op \in ops /\ request' = NoRequest

Creates == Handles({"create"})

Updates == Handles({"update", "partial_update"})

\* An update request being handled on a row that exists
UpdateOfRow == Updates /\ request.pk \in Rows

C2_NoConcurrentDoubleBooking ==
    \A v \in Workers : \A w \in Workers :
        (/\ v # w
         /\ workers[v].pc = "done"
         /\ workers[w].pc = "done"
         /\ workers[v].pk \in Rows
         /\ workers[w].pk \in Rows)
            => ~DoubleBooked(workers[v].pk, workers[w].pk)

\* C3: on a stored appointment check-in succeeds exactly when the status is
\* CONFIRMED, and a successful check-in leaves the status CHECKED_IN.
C3_CheckInIffConfirmed ==
    [][(Handles({"check_in"}) /\ request.pk \in Rows) =>
        /\ response'.kind = "OK" <=> appointments[request.pk].status = "CONFIRMED"
        /\ response'.kind = "OK" =>
                appointments'[request.pk].status = "CHECKED_IN"]_vars

\* C4: on a stored appointment complete succeeds exactly when the status is
\* CHECKED_IN or IN_PROGRESS, and a successful complete leaves the status
\* COMPLETED.
C4_CompleteIffCheckedInOrInProgress ==
    [][(Handles({"complete"}) /\ request.pk \in Rows) =>
        /\ response'.kind = "OK" <=>
                appointments[request.pk].status \in {"CHECKED_IN", "IN_PROGRESS"}
        /\ response'.kind = "OK" =>
                appointments'[request.pk].status = "COMPLETED"]_vars

\* C5: on a stored appointment cancel succeeds exactly when the status is not
\* COMPLETED, and a successful cancel leaves the status CANCELLED.
C5_CancelIffNotCompleted ==
    [][(Handles({"cancel"}) /\ request.pk \in Rows) =>
        /\ response'.kind = "OK" <=> appointments[request.pk].status # "COMPLETED"
        /\ response'.kind = "OK" =>
                appointments'[request.pk].status = "CANCELLED"]_vars

\* The status state machine: the main path and its side exits
MainPath == <<"SCHEDULED", "CONFIRMED", "CHECKED_IN", "IN_PROGRESS", "COMPLETED">>

OnMainPath(status) == \E i \in DOMAIN MainPath : MainPath[i] = status

Forward(from, to) ==
    \E i \in DOMAIN MainPath : \E j \in DOMAIN MainPath :
        MainPath[i] = from /\ MainPath[j] = to /\ i < j

MachineAllows(from, to) ==
    /\ to = "CHECKED_IN" => from = "CONFIRMED"
    /\ to = "COMPLETED" => from \in {"CHECKED_IN", "IN_PROGRESS"}
    /\ (OnMainPath(from) /\ OnMainPath(to)) => Forward(from, to)
    /\ OnMainPath(to) => OnMainPath(from)

\* C6, as stated: every change of the status of a stored appointment, by any
\* operation, is a transition of the status state machine.
C6_EveryChangeFollowsMachine ==
    [][\A pk \in Kept :
        appointments'[pk].status # appointments[pk].status =>
            MachineAllows(appointments[pk].status, appointments'[pk].status)]_vars

\* C6, amended: every change of the status of a stored appointment made by
\* check-in, complete or cancel is a transition of the status state machine;
\* a full or partial update writes whatever status its body carries.
C6_ActionsFollowMachine ==
    [][\A pk \in Kept :
        (/\ appointments'[pk].status # appointments[pk].status
         /\ ~Updates)
            => MachineAllows(appointments[pk].status, appointments'[pk].status)]_vars

\* A check-in has just moved an appointment to CHECKED_IN
C6_Witness ==
    /\ response = Answer("check_in", "OK", {})
    /\ \E pk \in Rows : appointments[pk].status = "CHECKED_IN"

Terminal == {"COMPLETED", "CANCELLED", "NO_SHOW"}

\* C7, as stated: the status of a stored appointment that is COMPLETED,
\* CANCELLED or NO_SHOW never changes.
C7_TerminalStatusesStay ==
    [][\A pk \in Kept :
        appointments[pk].status \in Terminal =>
            appointments'[pk].status = appointments[pk].status]_vars

\* C7, amended: the status of a stored appointment that is COMPLETED,
\* CANCELLED or NO_SHOW is changed only by a full or partial update, which
\* writes whatever status its body carries, and by cancel, which turns
\* NO_SHOW into CANCELLED; check-in and complete never change it, and cancel
\* never changes COMPLETED.
C7_TerminalExceptCancelAndUpdate ==
    [][\A pk \in Kept :
        (/\ appointments[pk].status \in Terminal
         /\ appointments'[pk].status # appointments[pk].status)
            => \/ Updates
               \/ /\ Handles({"cancel"})
                  /\ appointments[pk].status = "NO_SHOW"
                  /\ appointments'[pk].status = "CANCELLED"]_vars

\* A cancel has just been refused on a COMPLETED appointment
C7_Witness ==
    /\ response = Answer("cancel", "TransitionError",
                         {"Cannot cancel completed appointments"})
    /\ \E pk \in Rows : appointments[pk].status = "COMPLETED"

\* C8, as stated: the appointment a create request persists is SCHEDULED.
C8_CreatedIsScheduled ==
    [][(Creates /\ response'.kind = "OK") =>
        appointments'[nextAppointmentPk].status = "SCHEDULED"]_vars

\* C8, amended: the appointment a create request persists has the status
\* the request body carries, and is SCHEDULED when the body carries none.
C8_CreatedHasGivenOrDefaultStatus ==
    [][(Creates /\ response'.kind = "OK") =>
        /\ nextAppointmentPk \notin Rows
        /\ DOMAIN appointments' = Rows \cup {nextAppointmentPk}
        /\ appointments'[nextAppointmentPk].status =
                IF "status" \in request.data.has
                THEN request.data.status ELSE "SCHEDULED"]_vars

\* A create whose body carried no status has just persisted the only row
C8_Witness ==
    /\ response = Answer("create", "OK", {})
    /\ Rows # {}
    /\ \A pk \in Rows : appointments[pk].status = "SCHEDULED"

\* The date-time of the appointment a create or update request would write
CandidateDate ==
    IF "appointment_date" \in request.data.has
    THEN request.data.appointment_date
    ELSE appointments[request.pk].appointment_date

PastInBody == "appointment_date: Cannot schedule appointments in the past"

PastInModel == "Cannot schedule appointments in the past"

Candidate ==
    IF request.op = "create"
    THEN [patient |-> CHOOSE k \in DOMAIN patients :
                        patients[k].patient_id = request.data.patient_id,
          appointment_date |-> request.data.appointment_date]
    ELSE [patient |->
            IF "patient_id" \in request.data.has
            THEN CHOOSE k \in DOMAIN patients :
                    patients[k].patient_id = request.data.patient_id
            ELSE appointments[request.pk].patient,
          appointment_date |-> CandidateDate]

\* The request being handled gets as far as a conflict check: its fields are
\* valid and its date-time is not in the past
KnownPatient ==
    \E k \in DOMAIN patients : patients[k].patient_id = request.data.patient_id

ReachesConflictCheck ==
    \/ /\ Creates
       /\ {"patient_id", "appointment_date"} \subseteq request.data.has
       /\ KnownPatient
       /\ ~(request.data.appointment_date < now)
    \/ /\ UpdateOfRow
       /\ request.op = "update" =>
            {"patient_id", "appointment_date"} \subseteq request.data.has
       /\ "patient_id" \in request.data.has => KnownPatient
       /\ ~(CandidateDate < now)
    \/ /\ Handles({"check_in"}) /\ request.pk \in Rows
       /\ appointments[request.pk].status = "CONFIRMED"
       /\ ~(appointments[request.pk].appointment_date < now)
    \/ /\ Handles({"complete"}) /\ request.pk \in Rows
       /\ appointments[request.pk].status \in {"CHECKED_IN", "IN_PROGRESS"}
       /\ ~(appointments[request.pk].appointment_date < now)
    \/ /\ Handles({"cancel"}) /\ request.pk \in Rows
       /\ appointments[request.pk].status # "COMPLETED"
       /\ ~(appointments[request.pk].appointment_date < now)

\* Another stored appointment of the candidate's patient, on the candidate's
\* calendar date, is active
Conflicting ==
    \E k \in Rows \ {request.pk} :
        /\ appointments[k].patient = Candidate.patient
        /\ SameDay(appointments[k].appointment_date, Candidate.appointment_date)
        /\ IsActive(appointments[k].status)

ConflictMessages ==
    {"already has an appointment on", "already has an appointment on this date"}

ReportedKinds == {"NotFound", "ValidationError", "ConflictError", "TransitionError"}

\* C11: the answer to an appointment create, update, check-in, complete or
\* cancel is a success or one of the four error kinds NotFound,
\* ValidationError, ConflictError and TransitionError with a reason; the
\* error the model raises when a record is saved is among them.
C11_RejectionsAreReported ==
    response.op \in {"create", "update", "partial_update",
                     "check_in", "complete", "cancel"} =>
        \/ response.kind = "OK"
        \/ response.kind \in ReportedKinds /\ response.errors # {}

\* Two stored patients never share a patient_id
UniquePatientIds ==
    \A a \in DOMAIN patients : \A b \in DOMAIN patients :
        patients[a].patient_id = patients[b].patient_id => a = b

\* The request being handled would give a patient a patient_id that another
\* stored patient has
DuplicatesPatientId ==
    /\ "patient_id" \in request.data.has
    /\ \E k \in DOMAIN patients \ {request.pk} :
            patients[k].patient_id = request.data.patient_id

PatientWrites == {"patient_create", "patient_update", "patient_partial_update"}

\* C12: no two stored patients have the same patient_id after any patient
\* create or update, and a create, or an update of a stored patient, that
\* would duplicate the patient_id of another patient is rejected with a
\* validation error and changes nothing.
C12_PatientIdUnique ==
    [][/\ UniquePatientIds'
       /\ (/\ Handles(PatientWrites)
           /\ request.op = "patient_create" \/ request.pk \in DOMAIN patients
           /\ DuplicatesPatientId)
            => /\ response'.kind = "ValidationError"
               /\ "patient_id: already exists" \in response'.errors
               /\ StoreUnchanged]_vars

\* A patient write has just been refused for a duplicate patient_id
C12_Witness ==
    /\ response.op \in PatientWrites
    /\ response.kind = "ValidationError"
    /\ "patient_id: already exists" \in response.errors
    /\ patients # <<>>

\* C13: no patient update, full or partial, changes the patient_id of a
\* stored patient.
C13_PatientIdImmutable ==
    [][\A k \in DOMAIN patients \cap DOMAIN patients' :
        patients'[k].patient_id = patients[k].patient_id]_vars

\* Every stored appointment references a stored patient
ReferencesExist ==
    \A k \in Rows : appointments[k].patient \in DOMAIN patients

StatusActions == {"check_in", "complete", "cancel"}

DaysBeforeYear(year) ==
    365 * year + ((year - 1) \div 4) - ((year - 1) \div 100)
        + ((year - 1) \div 400)

RECURSIVE DaysBeforeMonth(_, _)
DaysBeforeMonth(year, month) ==
    IF month = 1 THEN 0
    ELSE DaysBeforeMonth(year, month - 1) + DaysInMonth(year, month - 1)

Ordinal(year, month, day) ==
    DaysBeforeYear(year) + DaysBeforeMonth(year, month) + day

\* The whole years elapsed from birth to today: the anniversaries of birth
\* that are not after today
WholeYears(birth, today) ==
    Cardinality({n \in 1..(today.year - birth.year) :
        Ordinal(birth.year + n, birth.month, birth.day)
            <= Ordinal(today.year, today.month, today.day)})

June(year, day) == [year |-> year, month |-> 6, day |-> day]

\* C15: for a date of birth and a current date not before it, age is the
\* number of whole years elapsed: the difference of the years, less one
\* exactly when the current (month, day) is before that of birth; on the
\* birthday the year counts (born 2000-06-15: 23 on 2024-06-14, 24 on
\* 2024-06-15).
C15_AgeIsWholeYears ==
    age_of.computed =>
        LET b == age_of.date_of_birth
            t == age_of.today
            before == \/ t.month < b.month
                      \/ t.month = b.month /\ t.day < b.day
        IN
        /\ age_of.age = t.year - b.year - (IF before THEN 1 ELSE 0)
        /\ age_of.age = WholeYears(b, t)
        /\ (b = June(2000, 15) /\ t = June(2024, 14)) => age_of.age = 23
        /\ (b = June(2000, 15) /\ t = June(2024, 15)) => age_of.age = 24

\* The age of a patient born 2000-06-15 has been computed on the birthday
\* of 2024
C15_Witness ==
    /\ age_of.computed
    /\ age_of.date_of_birth = June(2000, 15)
    /\ age_of.today = June(2024, 15)
    /\ age_of.age = 24

\* C17: every appointment the generator builds is dated between 30 days
\* before and 60 days after the time the generator runs.
C17_GeneratedWithinRange ==
    sample.made =>
        /\ sample.ran_at - 30 * 24 * 60 <= sample.appointment_date
        /\ sample.appointment_date <= sample.ran_at + 60 * 24 * 60

====
